---- MODULE Spec2Model ----
(***************************************************************************)
(* ParkShare: the parking-spot store, the confirmParking transaction and   *)
(* the points ledger it feeds (services/parkingService.ts,                 *)
(* services/pointsService.ts), as a state machine over the Firestore       *)
(* collections parkingSpots, parkHistory and users.                        *)
(***************************************************************************)
EXTENDS Integers, FiniteSets, Sequences, TLC

\* ---------------------------------------------------------------- bounds
\* The clock runs from 1 to MaxTime (Date.now(), in abstract ticks).
MaxTime == 2
\* createParkingSpot invocations; addDoc gives each its own document id.
NumCreates == 1
\* confirmParking invocations.
NumCalls == 2
\* createParkingSpot invocations of one owner that may overlap.
NumOwnerCreates == 2
\* pointsService / userService invocations that may overlap.
NumLedgerCalls == 3
MaxPoints == 1000
NumBookings == 1
NumBookingCalls == 3

\* ------------------------------------------------------- program constants
\* runTransaction's default number of attempts (Firestore SDK).
MaxAttempts == 5
\* createUser's defaults for a new account.
DefaultReliability == 50
DefaultPoints == 0
\* awardPointsForVerifiedPin / awardPointsForParkingConfirmation base rewards.
VerifiedPinBase == 10
ParkingConfirmationBase == 5
\* awardPoints' default premium multiplier.
DefaultMultiplier == 2
LevelDivisor == 100
\* createParkingSpot's range of willLeaveIn for a leaving-soon pin.
MinLeave == 2
MaxLeave == 60
\* One minute of willLeaveIn in the clock's unit (milliseconds).
MsPerMinute == 60000
\* calculateDistance: metres per degree of latitude, R * PI / 180 with R = 6371 km.
MetersPerDegree == 111195
\* useMapPins' default radius, and the latitude the map is centred on.
DefaultRadiusM == 5000
CenterLat == 40

Creates == 1..NumCreates
SpotIds == Creates
Calls == 1..NumCalls

\* Callers. carol has signed in but has no users document (not onboarded).
UserIds == {"alice", "bob", "carol"}
Registered == {"alice", "bob"}
\* alice holds a premium subscription.
Premium == {"alice"}

PinTypes == {"walk-in", "leaving-soon"}
ValidStatuses ==
  {"potentially-free", "verified", "expired", "occupied",
   "walk_in_pending", "walk_in_expired", "leaving_soon_active", "leaving_soon_expired"}
LegacyStatuses == {"potentially-free", "verified", "expired", "occupied"}
ExpiredStatuses == {"expired", "walk_in_expired", "leaving_soon_expired"}

VARIABLES
  now,          \* Date.now() / serverTimestamp()
  spots,        \* collection parkingSpots: document id -> document
  parkHistory,  \* collection parkHistory: set of documents
  users,        \* collection users: uid -> document
  creates,      \* createParkingSpot invocations
  calls,        \* confirmParking invocations
  verifying,    \* verifyParkingSpot invocations between their read and their write
  lastCall,     \* the latest owner-edit or status call that returned, and its outcome
  listener,     \* the listenToNearbySpots subscription and its latest snapshot
  ledger,       \* pointsService / userService invocations on the users collection
  level,        \* a calculateLevel invocation: its argument and what it returned
  found,        \* a getActiveParkingSpots invocation and the list it returned
  bookings,     \* collection bookings: document id -> document
  bookingCalls  \* bookingService invocations between their read and their write

\* The variables of the spot store, and those of the other services.
spotVars == <<now, spots, parkHistory, users, creates, calls, verifying, lastCall, listener>>
otherVars == <<ledger, level, found, bookings, bookingCalls>>

vars == <<spotVars, otherVars>>

\* ------------------------------------------------------------ parkingSpots
NoData ==
  [userId |-> "", latitude |-> 0, longitude |-> 0, pinType |-> "", willLeaveIn |-> 0,
   status |-> "", expiresAt |-> 0, priorityScore |-> 0]

\* getUserParkingSpots: the ids of the user's documents, expired ones dropped
\* unless includeExpired (the result's order is not used by any caller here).
GetUserParkingSpots(userId, includeExpired) ==
  {s \in DOMAIN spots :
     /\ spots[s].userId = userId
     /\ \/ includeExpired
        \/ /\ spots[s].status \notin ExpiredStatuses
           /\ ~(spots[s].expiresAt <= now)}

\* createParkingSpot's filter over getUserParkingSpots(userId, false).
ActiveLeavingSoon(userId) ==
  {s \in GetUserParkingSpots(userId, FALSE) :
     /\ spots[s].pinType = "leaving-soon"
     /\ spots[s].status = "leaving_soon_active"
     /\ spots[s].expiresAt > now}

\* createParkingSpot's synchronous validation: "ok" or the message thrown.
CreateValidation(d) ==
  IF d.userId = "" THEN "User ID is required"
  ELSE IF d.latitude < -90 \/ d.latitude > 90 THEN "Invalid latitude"
  ELSE IF d.longitude < -180 \/ d.longitude > 180 THEN "Invalid longitude"
  ELSE IF d.pinType \notin PinTypes THEN "Invalid pin type"
  ELSE IF /\ d.pinType = "leaving-soon"
          /\ (d.willLeaveIn = 0 \/ d.willLeaveIn < MinLeave \/ d.willLeaveIn > MaxLeave)
       THEN "willLeaveIn must be between 2 and 60 minutes for leaving-soon pins"
  ELSE "ok"

\* The pre-check for a second leaving-soon pin. q is the outcome of the
\* getUserParkingSpots query: an error of the query is logged and not blocking.
LeavingSoonCheck(d, q) ==
  IF d.pinType = "leaving-soon" /\ q = "ok" /\ ActiveLeavingSoon(d.userId) # {}
    THEN "You already have an active Leaving Soon pin."
    ELSE "ok"

\* The checks after the pre-check, before addDoc.
CreateLateValidation(d) ==
  IF d.expiresAt = 0 \/ d.expiresAt < now THEN "expiresAt must be a future timestamp"
  ELSE IF d.priorityScore < 0 THEN "priorityScore must be a non-negative number"
  ELSE "ok"

CreateOutcome(d, q) ==
  IF CreateValidation(d) # "ok" THEN CreateValidation(d)
  ELSE IF LeavingSoonCheck(d, q) # "ok" THEN LeavingSoonCheck(d, q)
  ELSE CreateLateValidation(d)

\* createParkingSpot up to its addDoc call.
CreateParkingSpotBegin(k, d, q) ==
  /\ creates[k].pc = "idle"
  /\ creates' = [creates EXCEPT ![k] =
       IF CreateOutcome(d, q) = "ok"
         THEN [pc |-> "addDoc", data |-> d, result |-> "pending"]
         ELSE [pc |-> "done", data |-> NoData, result |-> CreateOutcome(d, q)]]
  /\ UNCHANGED <<now, spots, parkHistory, users, calls, verifying, lastCall, listener, otherVars>>

\* The document addDoc stores: spotData with createdAt set by the server.
StoredSpot(d) ==
  [userId |-> d.userId, latitude |-> d.latitude, longitude |-> d.longitude,
   pinType |-> d.pinType, willLeaveIn |-> d.willLeaveIn, status |-> d.status,
   expiresAt |-> d.expiresAt, priorityScore |-> d.priorityScore, createdAt |-> now]

\* addDoc resolves: the document exists under a fresh id.
CreateParkingSpotWrite(k) ==
  /\ creates[k].pc = "addDoc"
  /\ spots' = (k :> StoredSpot(creates[k].data)) @@ spots
  /\ creates' = [creates EXCEPT ![k] = [pc |-> "done", data |-> NoData, result |-> "ok"]]
  /\ UNCHANGED <<now, parkHistory, users, calls, verifying, lastCall, listener, otherVars>>

\* addDoc rejects (the store is unreachable): nothing is stored.
CreateParkingSpotFail(k) ==
  /\ creates[k].pc = "addDoc"
  /\ creates' = [creates EXCEPT ![k] =
       [pc |-> "done", data |-> NoData, result |-> "Failed to create parking spot"]]
  /\ UNCHANGED <<now, spots, parkHistory, users, calls, verifying, lastCall, listener, otherVars>>

\* ------------------------------------------------------------------ clock
Tick ==
  /\ now < MaxTime
  /\ now' = now + 1
  /\ UNCHANGED <<spots, parkHistory, users, creates, calls, verifying, lastCall, listener, otherVars>>

\* ------------------------------------------------- writes to parkingSpots
\* A write to document s changes its version: every transaction that has read
\* s and not yet committed fails its commit precondition.
CallsAfterWrite(s) ==
  [c \in Calls |->
     IF calls[c].pc = "commit" /\ calls[c].spotId = s
       THEN [calls[c] EXCEPT !.stale = TRUE]
       ELSE calls[c]]

\* A patch of updateParkingSpot: `has` names the fields the caller provided.
NoPatch ==
  [has |-> {}, pinType |-> "", status |-> "", willLeaveIn |-> 0, expiresAt |-> 0]

\* updateParkingSpot's checks: "ok" or the message thrown.
UpdateOutcome(s, userId, patch) ==
  IF userId = "" THEN "User ID is required"
  ELSE IF s \notin DOMAIN spots THEN "Parking spot not found"
  ELSE IF spots[s].userId # userId
       THEN "You do not have permission to edit this parking spot"
  ELSE IF "pinType" \in patch.has /\ patch.pinType # "" /\ patch.pinType \notin PinTypes
       THEN "Invalid pin type"
  ELSE IF "status" \in patch.has /\ patch.status # "" /\ patch.status \notin ValidStatuses
       THEN "Invalid status"
  ELSE IF "willLeaveIn" \in patch.has
          /\ (patch.willLeaveIn < MinLeave \/ patch.willLeaveIn > MaxLeave)
       THEN "willLeaveIn must be between 2 and 60 minutes"
  ELSE "ok"

\* updateDoc(spotRef, updateData): the provided fields replace the stored ones.
Patched(doc, patch) ==
  [doc EXCEPT
     !.pinType = IF "pinType" \in patch.has THEN patch.pinType ELSE @,
     !.status = IF "status" \in patch.has THEN patch.status ELSE @,
     !.willLeaveIn = IF "willLeaveIn" \in patch.has THEN patch.willLeaveIn ELSE @,
     !.expiresAt = IF "expiresAt" \in patch.has THEN patch.expiresAt ELSE @]

UpdateParkingSpot(s, userId, patch) ==
  /\ UpdateOutcome(s, userId, patch) = "ok"
  /\ spots' = [spots EXCEPT ![s] = Patched(@, patch)]
  /\ calls' = CallsAfterWrite(s)
  /\ UNCHANGED <<now, parkHistory, users, creates, verifying, listener, otherVars>>

\* Faulty variant: deleteParkingSpot without its ownership check.
DeleteOutcomeAnyCaller(s, userId) ==
  IF userId = "" THEN "User ID is required"
  ELSE IF s \notin DOMAIN spots THEN "Parking spot not found"
  ELSE "ok"

\* deleteParkingSpot's checks: "ok" or the message thrown.
DeleteOutcome(s, userId) ==
  IF userId = "" THEN "User ID is required"
  ELSE IF s \notin DOMAIN spots THEN "Parking spot not found"
  ELSE IF spots[s].userId # userId
       THEN "You do not have permission to delete this parking spot"
  ELSE "ok"

SpotsWithout(s) == [x \in DOMAIN spots \ {s} |-> spots[x]]

DeleteParkingSpot(s, userId) ==
  /\ DeleteOutcome(s, userId) = "ok"
  /\ spots' = SpotsWithout(s)
  /\ calls' = CallsAfterWrite(s)
  /\ UNCHANGED <<now, parkHistory, users, creates, verifying, listener, otherVars>>

\* updateParkingSpotStatus's checks: "ok" or the message thrown.
StatusOutcome(s, status) ==
  IF status \notin LegacyStatuses THEN "Invalid status"
  ELSE IF s \notin DOMAIN spots THEN "Parking spot not found"
  ELSE "ok"

\* updateParkingSpotStatus (also markSpotAsOccupied and expireParkingSpot,
\* which call it with 'occupied' and 'expired'); no caller identity is taken.
UpdateParkingSpotStatus(s, status) ==
  /\ StatusOutcome(s, status) = "ok"
  /\ spots' = [spots EXCEPT ![s].status = status]
  /\ calls' = CallsAfterWrite(s)
  /\ UNCHANGED <<now, parkHistory, users, creates, verifying, listener, otherVars>>

\* ------------------------------------------- calls as their callers see them
\* No call has returned yet.
NoLastCall == [op |-> "", spotId |-> 0, userId |-> "", result |-> ""]

\* A caller that checks a condition only after updateDoc: the patch is stored
\* and the call still throws.
UpdateCallWritesFirst(s, userId, patch) ==
  /\ lastCall' = [op |-> "updateParkingSpot", spotId |-> s, userId |-> userId,
                  result |-> UpdateOutcome(s, userId, patch)]
  /\ IF s \in DOMAIN spots
       THEN /\ spots' = [spots EXCEPT ![s] = Patched(@, patch)]
            /\ calls' = CallsAfterWrite(s)
       ELSE UNCHANGED <<spots, calls>>
  /\ UNCHANGED <<now, parkHistory, users, creates, verifying, listener, otherVars>>

\* One updateParkingSpot call from entry to return: it stores the patch and
\* resolves, or throws with nothing written.
UpdateCall(s, userId, patch) ==
  /\ lastCall' = [op |-> "updateParkingSpot", spotId |-> s, userId |-> userId,
                  result |-> UpdateOutcome(s, userId, patch)]
  /\ IF UpdateOutcome(s, userId, patch) = "ok"
       THEN UpdateParkingSpot(s, userId, patch)
       ELSE UNCHANGED <<now, spots, parkHistory, users, creates, calls, verifying, listener, otherVars>>

\* One deleteParkingSpot call from entry to return.
DeleteCall(s, userId) ==
  /\ lastCall' = [op |-> "deleteParkingSpot", spotId |-> s, userId |-> userId,
                  result |-> DeleteOutcome(s, userId)]
  /\ IF DeleteOutcome(s, userId) = "ok"
       THEN DeleteParkingSpot(s, userId)
       ELSE UNCHANGED <<now, spots, parkHistory, users, creates, calls, verifying, listener, otherVars>>

\* One updateParkingSpotStatus call (or markSpotAsOccupied, expireParkingSpot)
\* made by the signed-in user userId; the function is not told who calls it.
StatusCall(userId, s, status) ==
  /\ lastCall' = [op |-> "updateParkingSpotStatus", spotId |-> s, userId |-> userId,
                  result |-> StatusOutcome(s, status)]
  /\ IF StatusOutcome(s, status) = "ok"
       THEN UpdateParkingSpotStatus(s, status)
       ELSE UNCHANGED <<now, spots, parkHistory, users, creates, calls, verifying, listener, otherVars>>

\* verifyParkingSpot's read (getParkingSpotById) and its status check.
VerifyOutcome(s) ==
  IF s \notin DOMAIN spots THEN "Parking spot not found"
  ELSE IF spots[s].status = "occupied" \/ spots[s].status = "expired"
       THEN "Cannot verify an expired or occupied spot"
  ELSE "ok"

VerifyParkingSpotRead(s) ==
  /\ s \notin verifying
  /\ VerifyOutcome(s) = "ok"
  /\ verifying' = verifying \cup {s}
  /\ UNCHANGED <<now, spots, parkHistory, users, creates, calls, lastCall, listener, otherVars>>

\* verifyParkingSpot's write: updateParkingSpotStatus(spotId, 'verified').
VerifyParkingSpotWrite(s) ==
  /\ s \in verifying
  /\ verifying' = verifying \ {s}
  /\ IF StatusOutcome(s, "verified") = "ok"
       THEN /\ spots' = [spots EXCEPT ![s].status = "verified"]
            /\ calls' = CallsAfterWrite(s)
       ELSE UNCHANGED <<spots, calls>>
  /\ UNCHANGED <<now, parkHistory, users, creates, lastCall, listener, otherVars>>

\* ---------------------------------------------------------- points ledger
\* awardPoints' argument checks: "ok" or the message thrown.
AwardValidation(userId, basePoints, multiplier) ==
  IF userId = "" THEN "User ID is required"
  ELSE IF basePoints < 0 THEN "Points cannot be negative"
  ELSE IF multiplier < 1 THEN "Multiplier must be at least 1"
  ELSE "ok"

\* awardPoints' finalPoints (basePoints and multiplier are integers here, so
\* Math.floor leaves the product as it is).
FinalPoints(basePoints, isPremium, multiplier) ==
  IF isPremium THEN basePoints * multiplier ELSE basePoints

\* awardPoints up to its updateDoc: "ok" or the message thrown.
AwardOutcome(userId, basePoints, multiplier) ==
  IF AwardValidation(userId, basePoints, multiplier) # "ok"
    THEN AwardValidation(userId, basePoints, multiplier)
  ELSE IF userId \notin DOMAIN users THEN "User not found"
  ELSE "ok"

\* updateDoc(userRef, {parkPoints: increment(finalPoints)}).
UsersAfterAward(userId, basePoints, isPremium, multiplier) ==
  [users EXCEPT ![userId].parkPoints = @ + FinalPoints(basePoints, isPremium, multiplier)]

\* ---------------------------------------------------------- confirmParking
NoCall ==
  [pc |-> "idle", spotId |-> 0, confirmer |-> "", attempt |-> 0, stale |-> FALSE,
   author |-> "", at |-> 0, result |-> "pending"]

\* confirmParking is called: runTransaction starts its first attempt.
ConfirmParking(c, s, confirmerUserId) ==
  /\ calls[c].pc = "idle"
  /\ calls' = [calls EXCEPT ![c] =
       [NoCall EXCEPT !.pc = "get", !.spotId = s, !.confirmer = confirmerUserId,
                      !.attempt = 1]]
  /\ UNCHANGED <<now, spots, parkHistory, users, creates, verifying, lastCall, listener, otherVars>>

\* The transaction's checks on the document it read: "ok" or the message thrown.
ConfirmCheck(s) ==
  IF s \notin DOMAIN spots THEN "Spot not found"
  ELSE IF spots[s].status # "potentially-free" /\ spots[s].status # "verified"
       THEN "Spot is not available"
  ELSE IF spots[s].expiresAt < now THEN "Spot has expired"
  ELSE "ok"

\* runTransaction has settled: the update function's locals are gone.
AfterTransaction(call, pc, result) ==
  [NoCall EXCEPT !.pc = pc, !.spotId = call.spotId, !.confirmer = call.confirmer,
                 !.result = result]

\* trx.get and the update function: it throws (the transaction is rejected
\* with that error, without a retry) or buffers its two writes.
TrxGet(c) ==
  /\ calls[c].pc = "get"
  /\ calls' = [calls EXCEPT ![c] =
       IF ConfirmCheck(calls[c].spotId) = "ok"
         THEN [@ EXCEPT !.pc = "commit", !.stale = FALSE,
                        !.author = spots[calls[c].spotId].userId, !.at = now]
         ELSE AfterTransaction(@, "done", ConfirmCheck(calls[c].spotId))]
  /\ UNCHANGED <<now, spots, parkHistory, users, creates, verifying, lastCall, listener, otherVars>>

\* The parkHistory document the transaction sets. doc(collection(...)) draws a
\* fresh id; the id of the one document a call can commit is the call's own.
HistoryEntry(c) ==
  [id |-> c, userId |-> calls[c].confirmer,
   spotId |-> calls[c].spotId, authorUserId |-> calls[c].author,
   confirmedAt |-> calls[c].at]

\* The parkHistory documents written by call c.
HistoryOf(c) == {h \in parkHistory : h.id = c}

\* Faulty variant: the transaction no longer writes the spot's status.
SpotsAfterConfirmNoStatus(c) == spots

\* trx.update(spotRef, {status: 'verified'}).
SpotsAfterConfirm(c) ==
  [spots EXCEPT ![calls[c].spotId].status = "verified"]

\* Faulty variant: the parkHistory document is keyed by the spot, so a later
\* confirmation of the same spot replaces the earlier one.
HistoryAfterConfirmKeyedBySpot(c) ==
  {h \in parkHistory : h.spotId # calls[c].spotId} \cup {HistoryEntry(c)}

\* trx.set(historyRef, {...}).
HistoryAfterConfirm(c) == parkHistory \cup {HistoryEntry(c)}

\* The commit's precondition: the document read is still at the version read.
CommitPrecondition(c) == ~calls[c].stale

\* The transaction commits: both writes are applied together.
TrxCommit(c) ==
  /\ calls[c].pc = "commit"
  /\ CommitPrecondition(c)
  /\ spots' = SpotsAfterConfirm(c)
  /\ parkHistory' = HistoryAfterConfirm(c)
  /\ calls' = [CallsAfterWrite(calls[c].spotId) EXCEPT
                 ![c] = AfterTransaction(calls[c], "awardConfirmer", "pending")]
  /\ UNCHANGED <<now, users, creates, verifying, lastCall, listener, otherVars>>

\* The commit fails its precondition: runTransaction runs the update function
\* again while attempts remain.
TrxRetry(c) ==
  /\ calls[c].pc = "commit"
  /\ ~CommitPrecondition(c)
  /\ calls[c].attempt < MaxAttempts
  /\ calls' = [calls EXCEPT ![c] = [@ EXCEPT !.pc = "get", !.attempt = @ + 1]]
  /\ UNCHANGED <<now, spots, parkHistory, users, creates, verifying, lastCall, listener, otherVars>>

\* The last attempt's commit fails: runTransaction rejects.
TrxAbort(c) ==
  /\ calls[c].pc = "commit"
  /\ ~CommitPrecondition(c)
  /\ calls[c].attempt >= MaxAttempts
  /\ calls' = [calls EXCEPT ![c] = AfterTransaction(@, "done", "aborted")]
  /\ UNCHANGED <<now, spots, parkHistory, users, creates, verifying, lastCall, listener, otherVars>>

\* createParkHistory (parkHistoryService): setDoc of a new entry under a fresh
\* id. Nothing in the repository calls it; one direct call is modelled, and its
\* document takes the id 0, which no confirmParking call uses.
CreateParkHistory(s, confirmerUserId, authorUserId) ==
  /\ \A h \in parkHistory : h.id # 0
  /\ parkHistory' = parkHistory \cup
       {[id |-> 0, userId |-> confirmerUserId, spotId |-> s,
         authorUserId |-> authorUserId, confirmedAt |-> now]}
  /\ UNCHANGED <<now, spots, users, creates, calls, verifying, lastCall, listener, otherVars>>

\* await awardPointsForVerifiedPin(confirmerUserId, false): awardPoints with
\* base 10, isPremium false, multiplier 2.
AwardConfirmer(c) ==
  /\ calls[c].pc = "awardConfirmer"
  /\ IF AwardOutcome(calls[c].confirmer, VerifiedPinBase, DefaultMultiplier) = "ok"
       THEN /\ users' = UsersAfterAward(calls[c].confirmer, VerifiedPinBase, FALSE,
                                        DefaultMultiplier)
            /\ calls' = [calls EXCEPT ![c] = [@ EXCEPT !.pc = "awardAuthor"]]
       ELSE /\ users' = users
            /\ calls' = [calls EXCEPT ![c] =
                 [@ EXCEPT !.pc = "done",
                           !.result = AwardOutcome(calls[c].confirmer, VerifiedPinBase,
                                                   DefaultMultiplier)]]
  /\ UNCHANGED <<now, spots, parkHistory, creates, verifying, lastCall, listener, otherVars>>

\* Faulty variant: a failed award undoes the confirmation.
AwardConfirmerFailRollsBack(c) ==
  /\ calls[c].pc = "awardConfirmer"
  /\ AwardOutcome(calls[c].confirmer, VerifiedPinBase, DefaultMultiplier) = "ok"
  /\ calls' = [calls EXCEPT ![c] =
       [@ EXCEPT !.pc = "done", !.result = "Failed to award points"]]
  /\ parkHistory' = parkHistory \ HistoryOf(c)
  /\ spots' = [s \in DOMAIN spots |->
       IF s = calls[c].spotId THEN [spots[s] EXCEPT !.status = "potentially-free"]
                              ELSE spots[s]]
  /\ UNCHANGED <<now, users, creates, verifying, lastCall, listener, otherVars>>

\* awardPoints' updateDoc rejects (the store is unreachable): confirmParking
\* rejects with awardPoints' error.
AwardConfirmerFail(c) ==
  /\ calls[c].pc = "awardConfirmer"
  /\ AwardOutcome(calls[c].confirmer, VerifiedPinBase, DefaultMultiplier) = "ok"
  /\ calls' = [calls EXCEPT ![c] =
       [@ EXCEPT !.pc = "done", !.result = "Failed to award points"]]
  /\ UNCHANGED <<now, spots, parkHistory, users, creates, verifying, lastCall, listener, otherVars>>

\* await awardPointsForParkingConfirmation(spot.userId, false): `spot` is a
\* const of the transaction's update function and is not in scope here, so
\* evaluating the argument throws a ReferenceError before awardPoints is called.
AwardAuthor(c) ==
  /\ calls[c].pc = "awardAuthor"
  /\ calls' = [calls EXCEPT ![c] =
       [@ EXCEPT !.pc = "done", !.result = "ReferenceError: spot is not defined"]]
  /\ UNCHANGED <<now, spots, parkHistory, users, creates, verifying, lastCall, listener, otherVars>>

\* ------------------------------------------------------ listenToNearbySpots
\* No subscription.
NoListener ==
  [active |-> FALSE, centerLat |-> 0, radiusM |-> 0, since |-> 0, fresh |-> FALSE,
   seen |-> <<>>, spots |-> {}]

\* calculateDistance in metres for two points of one meridian (every position
\* of this model has longitude -74): dLon = 0, so the haversine distance is
\* R * |lat2 - lat1| * PI / 180.
CalculateDistanceM(lat1, lat2) ==
  MetersPerDegree * (IF lat1 < lat2 THEN lat2 - lat1 ELSE lat1 - lat2)

\* The documents of the listener's query: where('expiresAt', '>', now) with
\* `now` read once, when listenToNearbySpots was called.
QueryResult(since) ==
  [s \in {x \in DOMAIN spots : spots[x].expiresAt > since} |-> spots[s]]

\* Faulty variant: the radius cut made exclusive.
SnapshotSpotsInsideOnly(docs, centerLat, radiusM) ==
  {s \in DOMAIN docs :
     /\ docs[s].status \notin ExpiredStatuses
     /\ CalculateDistanceM(centerLat, docs[s].latitude) < radiusM}

\* The onSnapshot callback's filter: the ids of the spots handed to onChange.
SnapshotSpots(docs, centerLat, radiusM) ==
  {s \in DOMAIN docs :
     /\ docs[s].status \notin ExpiredStatuses
     /\ CalculateDistanceM(centerLat, docs[s].latitude) <= radiusM}

\* listenToNearbySpots(center, radiusM, onChange) is called.
Subscribe(centerLat, radiusM) ==
  /\ ~listener.active
  /\ listener' = [active |-> TRUE, centerLat |-> centerLat, radiusM |-> radiusM,
                   since |-> now, fresh |-> TRUE, seen |-> <<>>, spots |-> {}]
  /\ UNCHANGED <<now, spots, parkHistory, users, creates, calls, verifying, lastCall, otherVars>>

\* The store delivers a snapshot (the first one, or one after the query's
\* documents changed) and the callback hands its filtered list to onChange.
Deliver ==
  /\ listener.active
  /\ listener.fresh \/ QueryResult(listener.since) # listener.seen
  /\ listener' = [listener EXCEPT
       !.fresh = FALSE,
       !.seen = QueryResult(listener.since),
       !.spots = SnapshotSpots(QueryResult(listener.since), listener.centerLat,
                              listener.radiusM)]
  /\ UNCHANGED <<now, spots, parkHistory, users, creates, calls, verifying, lastCall, otherVars>>

\* The caller invokes the Unsubscribe function: no further delivery.
Unsubscribe ==
  /\ listener.active
  /\ listener' = NoListener
  /\ UNCHANGED <<now, spots, parkHistory, users, creates, calls, verifying, lastCall, otherVars>>

\* ------------------------------------------------------------ other services
\* A pointsService / userService invocation; `read` is what its read returned.
NoLedgerCall ==
  [op |-> "", pc |-> "idle", userId |-> "", basePoints |-> 0, isPremium |-> FALSE,
   multiplier |-> 0, isSuccess |-> FALSE, existed |-> FALSE, read |-> 0, readScore |-> 0,
   stale |-> FALSE, attempt |-> 0, result |-> "pending", granted |-> 0]

\* A write to users/userId changes the document's version: every
\* addPointsToUser transaction that has read it fails its commit precondition.
LedgerAfterWrite(userId) ==
  [i \in DOMAIN ledger |->
     IF ledger[i].op = "addPointsToUser" /\ ledger[i].pc = "commit" /\ ledger[i].userId = userId
       THEN [ledger[i] EXCEPT !.stale = TRUE]
       ELSE ledger[i]]

LedgerUnchanged ==
  UNCHANGED <<spotVars, level, found, bookings, bookingCalls>>

LedgerUsersUnchanged ==
  UNCHANGED <<now, spots, parkHistory, creates, calls, verifying, lastCall, listener,
              level, found, bookings, bookingCalls>>

\* awardPoints(userId, basePoints, isPremium, multiplier) up to its getDoc.
AwardPoints(i, userId, basePoints, isPremium, multiplier) ==
  /\ ledger[i].pc = "idle"
  /\ ledger' = [ledger EXCEPT ![i] =
       IF AwardValidation(userId, basePoints, multiplier) = "ok"
         THEN [NoLedgerCall EXCEPT !.op = "awardPoints", !.pc = "getDoc", !.userId = userId,
                                   !.basePoints = basePoints, !.isPremium = isPremium,
                                   !.multiplier = multiplier]
         ELSE [NoLedgerCall EXCEPT !.op = "awardPoints", !.pc = "done", !.userId = userId,
                                   !.result = AwardValidation(userId, basePoints, multiplier)]]
  /\ LedgerUnchanged

\* awardPoints' getDoc and its existence check.
AwardPointsGetDoc(i) ==
  /\ ledger[i].op = "awardPoints" /\ ledger[i].pc = "getDoc"
  /\ ledger' = [ledger EXCEPT ![i] =
       IF ledger[i].userId \in DOMAIN users
         THEN [@ EXCEPT !.pc = "updateDoc"]
         ELSE [@ EXCEPT !.pc = "done", !.result = "User not found"]]
  /\ LedgerUnchanged

\* awardPoints' updateDoc with increment(finalPoints) resolves; finalPoints is returned.
AwardPointsUpdateDoc(i) ==
  /\ ledger[i].op = "awardPoints" /\ ledger[i].pc = "updateDoc"
  /\ users' = UsersAfterAward(ledger[i].userId, ledger[i].basePoints, ledger[i].isPremium,
                              ledger[i].multiplier)
  /\ ledger' = [LedgerAfterWrite(ledger[i].userId) EXCEPT ![i] =
       [@ EXCEPT !.pc = "done", !.result = "ok",
                 !.granted = FinalPoints(ledger[i].basePoints, ledger[i].isPremium,
                                         ledger[i].multiplier)]]
  /\ LedgerUsersUnchanged

\* awardPoints' updateDoc rejects: nothing is written.
AwardPointsUpdateFail(i) ==
  /\ ledger[i].op = "awardPoints" /\ ledger[i].pc = "updateDoc"
  /\ ledger' = [ledger EXCEPT ![i] = [@ EXCEPT !.pc = "done", !.result = "Failed to award points"]]
  /\ LedgerUnchanged

\* addPointsToUser(uid, points): runTransaction starts.
AddPointsToUser(i, uid, points) ==
  /\ ledger[i].pc = "idle"
  /\ ledger' = [ledger EXCEPT ![i] =
       IF uid = ""
         THEN [NoLedgerCall EXCEPT !.op = "addPointsToUser", !.pc = "done",
                                   !.result = "Invalid arguments"]
         ELSE [NoLedgerCall EXCEPT !.op = "addPointsToUser", !.pc = "get", !.userId = uid,
                                   !.basePoints = points, !.attempt = 1]]
  /\ LedgerUnchanged

\* The transaction's update function: trx.get, the existence check, trx.update.
AddPointsGet(i) ==
  /\ ledger[i].op = "addPointsToUser" /\ ledger[i].pc = "get"
  /\ ledger' = [ledger EXCEPT ![i] =
       IF ledger[i].userId \in DOMAIN users
         THEN [@ EXCEPT !.pc = "commit", !.read = users[ledger[i].userId].parkPoints,
                        !.stale = FALSE]
         ELSE [@ EXCEPT !.pc = "done", !.result = "User not found"]]
  /\ LedgerUnchanged

\* Faulty variant: a commit that does not check the version it read.
LedgerCommitAlways(i) == TRUE

\* The commit's precondition: the document was not written since it was read.
LedgerCommitPrecondition(i) == ~ledger[i].stale

\* The transaction commits: parkPoints = prev.parkPoints + points.
AddPointsCommit(i) ==
  /\ ledger[i].op = "addPointsToUser" /\ ledger[i].pc = "commit"
  /\ LedgerCommitPrecondition(i)
  /\ users' = [users EXCEPT ![ledger[i].userId].parkPoints = ledger[i].read + ledger[i].basePoints]
  /\ ledger' = [LedgerAfterWrite(ledger[i].userId) EXCEPT ![i] =
       [@ EXCEPT !.pc = "done", !.result = "ok", !.stale = FALSE,
                 !.granted = ledger[i].basePoints]]
  /\ LedgerUsersUnchanged

\* The commit fails its precondition: runTransaction runs the function again,
\* or gives up after MaxAttempts.
AddPointsRetry(i) ==
  /\ ledger[i].op = "addPointsToUser" /\ ledger[i].pc = "commit"
  /\ ~LedgerCommitPrecondition(i)
  /\ ledger' = [ledger EXCEPT ![i] =
       IF ledger[i].attempt < MaxAttempts
         THEN [@ EXCEPT !.pc = "get", !.attempt = @ + 1, !.stale = FALSE]
         ELSE [@ EXCEPT !.pc = "done", !.result = "aborted", !.stale = FALSE]]
  /\ LedgerUnchanged

\* A users document as createUser and upsertUser first store it.
NewUser(isPremium) ==
  [parkPoints |-> DefaultPoints, reliabilityScore |-> DefaultReliability,
   isPremium |-> isPremium]

\* updateReliabilityScore(userId, isSuccess): getUserById.
UpdateReliabilityScore(i, userId, isSuccess) ==
  /\ ledger[i].pc = "idle"
  /\ ledger' = [ledger EXCEPT ![i] =
       IF userId \in DOMAIN users
         THEN [NoLedgerCall EXCEPT !.op = "updateReliabilityScore", !.pc = "updateUser",
                                   !.userId = userId, !.isSuccess = isSuccess,
                                   !.readScore = users[userId].reliabilityScore]
         ELSE [NoLedgerCall EXCEPT !.op = "updateReliabilityScore", !.pc = "done",
                                   !.userId = userId, !.isSuccess = isSuccess,
                                   !.result = "User not found"]]
  /\ LedgerUnchanged

\* newScore, from the score that getUserById returned.
NewScore(score, isSuccess) ==
  IF isSuccess THEN (IF score + 2 < 100 THEN score + 2 ELSE 100)
               ELSE (IF score - 1 > 0 THEN score - 1 ELSE 0)

\* updateUser(userId, {reliabilityScore: newScore}): its range check, its
\* existence check and its updateDoc.
ReliabilityUpdateUser(i) ==
  /\ ledger[i].op = "updateReliabilityScore" /\ ledger[i].pc = "updateUser"
  /\ LET newScore == NewScore(ledger[i].readScore, ledger[i].isSuccess) IN
       IF newScore < 0 \/ newScore > 100
         THEN /\ ledger' = [ledger EXCEPT ![i] =
                   [@ EXCEPT !.pc = "done",
                             !.result = "Reliability score must be between 0 and 100"]]
              /\ UNCHANGED users
       ELSE IF ledger[i].userId \notin DOMAIN users
         THEN /\ ledger' = [ledger EXCEPT ![i] =
                   [@ EXCEPT !.pc = "done", !.result = "User not found"]]
              /\ UNCHANGED users
       ELSE /\ users' = [users EXCEPT ![ledger[i].userId].reliabilityScore = newScore]
            /\ ledger' = [LedgerAfterWrite(ledger[i].userId) EXCEPT ![i] =
                 [@ EXCEPT !.pc = "done", !.result = "ok"]]
  /\ LedgerUsersUnchanged

\* upsertUser(userId, userData) with the onboarding screen's userData (no
\* parkPoints, no reliabilityScore): its getDoc.
UpsertUser(i, userId) ==
  /\ ledger[i].pc = "idle"
  /\ ledger' = [ledger EXCEPT ![i] =
       IF userId \in DOMAIN users
         THEN [NoLedgerCall EXCEPT !.op = "upsertUser", !.pc = "write", !.userId = userId,
                                   !.existed = TRUE, !.read = users[userId].parkPoints,
                                   !.readScore = users[userId].reliabilityScore]
         ELSE [NoLedgerCall EXCEPT !.op = "upsertUser", !.pc = "write", !.userId = userId]]
  /\ LedgerUnchanged

\* upsertUser's write: updateDoc with the parkPoints and reliabilityScore it
\* read (the document existed), or setDoc of a document with the defaults.
UpsertUserWrite(i) ==
  /\ ledger[i].op = "upsertUser" /\ ledger[i].pc = "write"
  /\ IF ledger[i].existed
       THEN users' = [users EXCEPT ![ledger[i].userId].parkPoints = ledger[i].read,
                                   ![ledger[i].userId].reliabilityScore = ledger[i].readScore]
       ELSE users' = (ledger[i].userId :> NewUser(FALSE)) @@ users
  /\ ledger' = [LedgerAfterWrite(ledger[i].userId) EXCEPT ![i] =
       [@ EXCEPT !.pc = "done", !.result = "ok"]]
  /\ LedgerUsersUnchanged

\* floor(sqrt(num / den)) for num >= 0: the largest k with k * k <= num / den.
RECURSIVE FloorSqrtFrom(_, _, _)
FloorSqrtFrom(k, num, den) ==
  IF (k + 1) * (k + 1) * den > num THEN k ELSE FloorSqrtFrom(k + 1, num, den)

FloorSqrt(num, den) == FloorSqrtFrom(0, num, den)

\* A level formula that leaves out the + 1.
CalculateLevelFromZero(points) ==
  IF points < 0 THEN 1 ELSE FloorSqrt(points, LevelDivisor)

\* calculateLevel(points).
CalculateLevel(points) ==
  IF points < 0 THEN 1 ELSE FloorSqrt(points, LevelDivisor) + 1

\* getPointsForNextLevel(currentLevel).
GetPointsForNextLevel(currentLevel) ==
  IF currentLevel < 1
    THEN LevelDivisor
    ELSE LET nextLevel == currentLevel + 1 IN (nextLevel - 1) * (nextLevel - 1) * LevelDivisor

LevelUnchanged ==
  UNCHANGED <<spotVars, ledger, found, bookings, bookingCalls>>

\* A caller computes the level of its points ...
LevelOfPoints ==
  /\ level.pc = "points"
  /\ level' = [level EXCEPT !.pc = "level", !.level = CalculateLevel(level.points)]
  /\ LevelUnchanged

\* ... and the points at which the next level starts.
NextLevelPoints ==
  /\ level.pc = "level"
  /\ level' = [level EXCEPT !.pc = "next", !.next = GetPointsForNextLevel(level.level)]
  /\ LevelUnchanged

\* convertToParkingSpot(docSnap.id, docSnap.data()), with the fields that
\* getActiveParkingSpots looks at.
ConvertToParkingSpot(s) ==
  [id |-> s, status |-> spots[s].status, expiresAt |-> spots[s].expiresAt,
   priorityScore |-> spots[s].priorityScore]

\* The documents S in the query's order: orderBy('expiresAt', 'asc'), equal
\* keys by document id.
RECURSIVE QueryOrder(_)
QueryOrder(S) ==
  IF S = {} THEN <<>>
  ELSE LET first == CHOOSE s \in S : \A t \in S :
                      \/ spots[s].expiresAt < spots[t].expiresAt
                      \/ spots[s].expiresAt = spots[t].expiresAt /\ s <= t
       IN <<first>> \o QueryOrder(S \ {first})

\* limit(n) and slice(0, n).
FirstN(seq, n) == SubSeq(seq, 1, IF Len(seq) < n THEN Len(seq) ELSE n)

\* The sort of getActiveParkingSpots: priorityScore descending, then expiresAt
\* ascending, equal elements in their order in seq (the sort is stable).
RECURSIVE SortedByPriority(_, _)
SortedByPriority(seq, I) ==
  IF I = {} THEN <<>>
  ELSE LET first == CHOOSE i \in I : \A j \in I :
                      \/ seq[i].priorityScore > seq[j].priorityScore
                      \/ /\ seq[i].priorityScore = seq[j].priorityScore
                         /\ seq[i].expiresAt < seq[j].expiresAt
                      \/ /\ seq[i].priorityScore = seq[j].priorityScore
                         /\ seq[i].expiresAt = seq[j].expiresAt
                         /\ i <= j
       IN <<seq[first]>> \o SortedByPriority(seq, I \ {first})

\* The client-side filter of getActiveParkingSpots.
NotExpiredStatus(spot) == spot.status \notin ExpiredStatuses

\* getActiveParkingSpots(maxResults): what it returns.
ActiveParkingSpots(maxResults) ==
  LET docs == FirstN(QueryOrder({s \in DOMAIN spots : spots[s].expiresAt > now}),
                     maxResults * 2)
      converted == [i \in DOMAIN docs |-> ConvertToParkingSpot(docs[i])]
      filtered == SelectSeq(converted, NotExpiredStatus)
  IN FirstN(SortedByPriority(filtered, DOMAIN filtered), maxResults)

GetActiveParkingSpots(maxResults) ==
  /\ found' = [maxResults |-> maxResults, at |-> now, spots |-> ActiveParkingSpots(maxResults)]
  /\ UNCHANGED <<spotVars, ledger, level, bookings, bookingCalls>>

\* BookingStatus, and the statuses the service treats as final.
BookingStatuses == {"pending", "confirmed", "completed", "cancelled", "expired"}
FinalBookingStatuses == {"completed", "cancelled", "expired"}

\* No call of the booking service has been made.
NoBookingCall ==
  [op |-> "", pc |-> "idle", bookingId |-> 0, status |-> "", result |-> "pending"]

\* A call that has passed its checks and is about to updateDoc the status.
BookingCallWriting(op, b, status) ==
  [op |-> op, pc |-> "updateDoc", bookingId |-> b, status |-> status, result |-> "pending"]

\* A call that has ended: resolved ("ok") or thrown.
BookingCallDone(op, b, result) ==
  [op |-> op, pc |-> "done", bookingId |-> b, status |-> "", result |-> result]

BookingUnchanged ==
  UNCHANGED <<spotVars, ledger, level, found>>

\* confirmBooking(bookingId) up to its updateDoc.
ConfirmBooking(i, b) ==
  /\ bookingCalls[i].pc = "idle"
  /\ bookingCalls' = [bookingCalls EXCEPT ![i] =
       IF b \notin DOMAIN bookings THEN BookingCallDone("confirmBooking", b, "Booking not found")
       ELSE IF bookings[b].status # "pending"
         THEN BookingCallDone("confirmBooking", b, "Cannot confirm booking")
       ELSE IF bookings[b].expiresAt < now
         THEN BookingCallDone("confirmBooking", b, "Booking has expired")
       ELSE BookingCallWriting("confirmBooking", b, "confirmed")]
  /\ UNCHANGED bookings
  /\ BookingUnchanged

\* completeBooking(bookingId) up to its updateDoc.
CompleteBooking(i, b) ==
  /\ bookingCalls[i].pc = "idle"
  /\ bookingCalls' = [bookingCalls EXCEPT ![i] =
       IF b \notin DOMAIN bookings THEN BookingCallDone("completeBooking", b, "Booking not found")
       ELSE IF bookings[b].status # "confirmed"
         THEN BookingCallDone("completeBooking", b, "Cannot complete booking")
       ELSE BookingCallWriting("completeBooking", b, "completed")]
  /\ UNCHANGED bookings
  /\ BookingUnchanged

\* cancelBooking(bookingId, userId) up to its updateDoc.
CancelBooking(i, b, userId) ==
  /\ bookingCalls[i].pc = "idle"
  /\ bookingCalls' = [bookingCalls EXCEPT ![i] =
       IF b \notin DOMAIN bookings THEN BookingCallDone("cancelBooking", b, "Booking not found")
       ELSE IF bookings[b].userId # userId
         THEN BookingCallDone("cancelBooking", b, "Unauthorized")
       ELSE IF bookings[b].status = "completed" \/ bookings[b].status = "cancelled"
         THEN BookingCallDone("cancelBooking", b, "Cannot cancel booking")
       ELSE BookingCallWriting("cancelBooking", b, "cancelled")]
  /\ UNCHANGED bookings
  /\ BookingUnchanged

\* expireBooking(bookingId) up to its updateDoc; on a final status it returns.
ExpireBooking(i, b) ==
  /\ bookingCalls[i].pc = "idle"
  /\ bookingCalls' = [bookingCalls EXCEPT ![i] =
       IF b \notin DOMAIN bookings THEN BookingCallDone("expireBooking", b, "Booking not found")
       ELSE IF bookings[b].status \in {"completed", "cancelled", "expired"}
         THEN BookingCallDone("expireBooking", b, "ok")
       ELSE BookingCallWriting("expireBooking", b, "expired")]
  /\ UNCHANGED bookings
  /\ BookingUnchanged

\* The updateDoc of the four functions: the status is stored whatever the
\* document holds by now.
BookingUpdateDoc(i) ==
  /\ bookingCalls[i].pc = "updateDoc"
  /\ bookings' = [bookings EXCEPT ![bookingCalls[i].bookingId].status = bookingCalls[i].status]
  /\ bookingCalls' = [bookingCalls EXCEPT ![i] =
       BookingCallDone(bookingCalls[i].op, bookingCalls[i].bookingId, "ok")]
  /\ BookingUnchanged

OtherInit ==
  /\ ledger = <<>>
  /\ level = <<>>
  /\ found = <<>>
  /\ bookings = <<>>
  /\ bookingCalls = <<>>

\* ------------------------------------------------------------ state machine
Init ==
  /\ now = 1
  /\ spots = <<>>
  /\ parkHistory = {}
  /\ users = [u \in Registered |-> NewUser(u \in Premium)]
  /\ creates = [k \in Creates |-> [pc |-> "idle", data |-> NoData, result |-> "pending"]]
  /\ calls = [c \in Calls |-> NoCall]
  /\ verifying = {}
  /\ lastCall = NoLastCall
  /\ listener = NoListener
  /\ OtherInit

\* The spot data the callers pass to createParkingSpot.
CreateInputs ==
  {[userId |-> u, latitude |-> 40, longitude |-> -74, pinType |-> t[1],
    willLeaveIn |-> t[2], status |-> t[3], expiresAt |-> e, priorityScore |-> 0] :
     u \in {"alice"},
     t \in {<<"walk-in", 10, "walk_in_pending">>,
            <<"leaving-soon", 15, "leaving_soon_active">>,
            <<"leaving-soon", 1, "leaving_soon_active">>,
            <<"walk-in", 10, "potentially-free">>},
     e \in {now, now + 1}}

\* The patches the owners pass to updateParkingSpot.
UpdateInputs ==
  {[NoPatch EXCEPT !.has = {"status"}, !.status = st] :
     st \in {"potentially-free", "occupied", "bogus"}}
  \cup {[NoPatch EXCEPT !.has = {"expiresAt"}, !.expiresAt = now + 1]}

Next ==
  \/ Tick
  \/ \E k \in Creates, d \in CreateInputs, q \in {"ok", "error"} :
       CreateParkingSpotBegin(k, d, q)
  \/ \E k \in Creates : CreateParkingSpotWrite(k)
  \/ \E k \in Creates : CreateParkingSpotFail(k)
  \/ \E s \in SpotIds, u \in UserIds, patch \in UpdateInputs :
       UpdateParkingSpot(s, u, patch) /\ UNCHANGED lastCall
  \/ \E s \in SpotIds, u \in UserIds :
       DeleteParkingSpot(s, u) /\ UNCHANGED lastCall
  \/ \E s \in SpotIds, st \in {"occupied", "expired"} :
       UpdateParkingSpotStatus(s, st) /\ UNCHANGED lastCall
  \/ \E c \in Calls, s \in SpotIds, u \in UserIds : ConfirmParking(c, s, u)
  \/ \E c \in Calls : TrxGet(c)
  \/ \E c \in Calls : TrxCommit(c)
  \/ \E c \in Calls : TrxRetry(c)
  \/ \E c \in Calls : TrxAbort(c)
  \/ \E c \in Calls : AwardConfirmer(c)
  \/ \E c \in Calls : AwardConfirmerFail(c)
  \/ \E c \in Calls : AwardAuthor(c)
  \/ \E s \in SpotIds : CreateParkHistory(s, "bob", "alice")

Spec == Init /\ [][Next]_vars

\* N confirmParking calls issued together against one spot: the state right
\* after every runTransaction has started and before any has read the spot,
\* which is unexpired for the whole run and has not been confirmed.
RaceSpot ==
  [userId |-> "alice", latitude |-> 40, longitude |-> -74, pinType |-> "walk-in",
   willLeaveIn |-> 10, status |-> "potentially-free", expiresAt |-> MaxTime + 1,
   priorityScore |-> 0, createdAt |-> 1]

RaceInit ==
  /\ now = 1
  /\ spots = (1 :> RaceSpot)
  /\ parkHistory = {}
  /\ users = [u \in Registered |-> NewUser(u \in Premium)]
  /\ creates = [k \in Creates |->
       IF k = 1 THEN [pc |-> "done", data |-> NoData, result |-> "ok"]
                ELSE [pc |-> "idle", data |-> NoData, result |-> "pending"]]
  /\ calls \in [Calls -> {[NoCall EXCEPT !.pc = "get", !.spotId = 1, !.confirmer = u,
                                         !.attempt = 1] :
                          u \in UserIds \ {RaceSpot.userId}}]
  /\ verifying = {}
  /\ lastCall = NoLastCall
  /\ listener = NoListener
  /\ OtherInit

RaceNext ==
  \/ Tick
  \/ \E c \in Calls : TrxGet(c)
  \/ \E c \in Calls : TrxCommit(c)
  \/ \E c \in Calls : TrxRetry(c)
  \/ \E c \in Calls : AwardConfirmer(c)
  \/ \E c \in Calls : AwardConfirmerFail(c)
  \/ \E c \in Calls : AwardAuthor(c)

SpecRace == RaceInit /\ [][RaceNext]_vars

\* The life cycle of one owner's spots: createParkingSpot calls that may
\* overlap, then edits, deletes and status calls by any signed-in user.
OwnerCreates == 1..NumOwnerCreates

\* What AddParkingSpotScreen.handleSubmit passes for a pin of the given type.
SubmittedSpot(userId, pinType, willLeaveIn) ==
  [userId |-> userId, latitude |-> CenterLat, longitude |-> -74, pinType |-> pinType,
   willLeaveIn |-> IF pinType = "walk-in" THEN 10 ELSE willLeaveIn,
   status |-> IF pinType = "walk-in" THEN "walk_in_pending" ELSE "leaving_soon_active",
   expiresAt |-> now + (IF pinType = "walk-in" THEN 10 ELSE willLeaveIn) * MsPerMinute,
   priorityScore |-> 0]

\* createParkingSpot's arguments: the screen's, and those of a caller that
\* fills in willLeaveIn, expiresAt or the position itself.
SpotInputs ==
  {SubmittedSpot("alice", "walk-in", 10), SubmittedSpot("alice", "leaving-soon", 15),
   SubmittedSpot("alice", "leaving-soon", 61),
   [SubmittedSpot("alice", "leaving-soon", 15) EXCEPT !.expiresAt = now + 1],
   [SubmittedSpot("alice", "walk-in", 10) EXCEPT !.willLeaveIn = 30, !.expiresAt = now],
   [SubmittedSpot("alice", "walk-in", 10) EXCEPT !.latitude = 91]}

\* What EditParkingSpotScreen.handleSave passes for a pin of the given type.
SavedPatch(pinType, willLeaveIn) ==
  [has |-> {"pinType", "status", "willLeaveIn", "expiresAt"}, pinType |-> pinType,
   status |-> IF pinType = "walk-in" THEN "walk_in_pending" ELSE "leaving_soon_active",
   willLeaveIn |-> IF pinType = "walk-in" THEN 10 ELSE willLeaveIn,
   expiresAt |-> now + (IF pinType = "walk-in" THEN 10 ELSE willLeaveIn) * MsPerMinute]

\* updateParkingSpot's patches: the screen's, and single-field ones.
SpotPatches ==
  {SavedPatch("walk-in", 10), SavedPatch("leaving-soon", 15),
   [NoPatch EXCEPT !.has = {"willLeaveIn"}, !.willLeaveIn = 30],
   [NoPatch EXCEPT !.has = {"willLeaveIn"}, !.willLeaveIn = 61],
   [NoPatch EXCEPT !.has = {"expiresAt"}, !.expiresAt = now + 1]}

SpotsInit ==
  /\ now = 1
  /\ spots = <<>>
  /\ parkHistory = {}
  /\ users = [u \in Registered |-> NewUser(u \in Premium)]
  /\ creates = [k \in OwnerCreates |-> [pc |-> "idle", data |-> NoData, result |-> "pending"]]
  /\ calls = [c \in Calls |-> NoCall]
  /\ verifying = {}
  /\ lastCall = NoLastCall
  /\ listener = NoListener
  /\ OtherInit

SpotsNext ==
  \/ Tick
  \/ \E k \in OwnerCreates, d \in SpotInputs, q \in {"ok", "error"} :
       CreateParkingSpotBegin(k, d, q)
  \/ \E k \in OwnerCreates : CreateParkingSpotWrite(k)
  \/ \E k \in OwnerCreates : CreateParkingSpotFail(k)
  \/ \E s \in OwnerCreates, u \in Registered, patch \in SpotPatches : UpdateCall(s, u, patch)
  \/ \E s \in OwnerCreates, u \in Registered : DeleteCall(s, u)
  \/ \E s \in OwnerCreates, u \in Registered, st \in {"occupied", "expired"} :
       StatusCall(u, s, st)

SpecSpots == SpotsInit /\ [][SpotsNext]_vars

\* A map screen subscribed with listenToNearbySpots while spots are created,
\* edited and expire.
NearbyNext ==
  \/ Tick
  \/ \E k \in Creates, d \in SpotInputs : CreateParkingSpotBegin(k, d, "ok")
  \/ \E k \in Creates : CreateParkingSpotWrite(k)
  \/ \E s \in SpotIds, patch \in SpotPatches : UpdateCall(s, "alice", patch)
  \/ \E s \in SpotIds : DeleteCall(s, "alice")
  \/ \E s \in SpotIds, u \in UserIds, st \in {"occupied", "expired"} : StatusCall(u, s, st)
  \/ Subscribe(CenterLat, DefaultRadiusM)
  \/ Deliver
  \/ Unsubscribe

SpecNearby == Init /\ [][NearbyNext]_vars

\* Subscriptions of several radii around the map's centre while spots are
\* created at the centre and one degree of latitude north of it.
Radii == {DefaultRadiusM, MetersPerDegree - 1, MetersPerDegree, MetersPerDegree + 1}

RadiusInputs ==
  {SubmittedSpot("alice", "walk-in", 10),
   [SubmittedSpot("alice", "walk-in", 10) EXCEPT !.latitude = CenterLat + 1],
   [SubmittedSpot("alice", "leaving-soon", 15) EXCEPT !.latitude = CenterLat + 1,
                                                     !.expiresAt = now + 1]}

RadiusNext ==
  \/ Tick
  \/ \E k \in OwnerCreates, d \in RadiusInputs : CreateParkingSpotBegin(k, d, "ok")
  \/ \E k \in OwnerCreates : CreateParkingSpotWrite(k)
  \/ \E s \in OwnerCreates, st \in {"occupied", "expired"} : StatusCall("bob", s, st)
  \/ \E r \in Radii : Subscribe(CenterLat, r)
  \/ Deliver
  \/ Unsubscribe

SpecRadius == SpotsInit /\ [][RadiusNext]_vars

\* Award calls on the users collection, overlapping in any way.
LedgerCalls == 1..NumLedgerCalls

\* awardPoints' arguments (basePoints, isPremium, multiplier) and
\* addPointsToUser's points.
AwardInputs == {<<10, TRUE, 2>>, <<10, FALSE, 2>>, <<5, TRUE, 3>>, <<-1, FALSE, 2>>}
AddInputs == {7}

LedgerInit ==
  /\ now = 1
  /\ spots = <<>>
  /\ parkHistory = {}
  /\ users = [u \in Registered |-> NewUser(u \in Premium)]
  /\ creates = [k \in Creates |-> [pc |-> "idle", data |-> NoData, result |-> "pending"]]
  /\ calls = [c \in Calls |-> NoCall]
  /\ verifying = {}
  /\ lastCall = NoLastCall
  /\ listener = NoListener
  /\ ledger = [i \in LedgerCalls |-> NoLedgerCall]
  /\ level = <<>>
  /\ found = <<>>
  /\ bookings = <<>>
  /\ bookingCalls = <<>>

AwardsNext ==
  \/ \E i \in LedgerCalls, u \in UserIds, a \in AwardInputs : AwardPoints(i, u, a[1], a[2], a[3])
  \/ \E i \in LedgerCalls : AwardPointsGetDoc(i)
  \/ \E i \in LedgerCalls : AwardPointsUpdateDoc(i)
  \/ \E i \in LedgerCalls : AwardPointsUpdateFail(i)
  \/ \E i \in LedgerCalls, u \in UserIds, points \in AddInputs : AddPointsToUser(i, u, points)
  \/ \E i \in LedgerCalls : AddPointsGet(i)
  \/ \E i \in LedgerCalls : AddPointsCommit(i)
  \/ \E i \in LedgerCalls : AddPointsRetry(i)

SpecAwards == LedgerInit /\ [][AwardsNext]_vars

\* Every writer of the users collection, overlapping in any way.
LedgerNext ==
  \/ \E i \in LedgerCalls, u \in UserIds : AwardPoints(i, u, 10, FALSE, 2)
  \/ \E i \in LedgerCalls : AwardPointsGetDoc(i)
  \/ \E i \in LedgerCalls : AwardPointsUpdateDoc(i)
  \/ \E i \in LedgerCalls, u \in UserIds, points \in AddInputs : AddPointsToUser(i, u, points)
  \/ \E i \in LedgerCalls : AddPointsGet(i)
  \/ \E i \in LedgerCalls : AddPointsCommit(i)
  \/ \E i \in LedgerCalls : AddPointsRetry(i)
  \/ \E i \in LedgerCalls, u \in UserIds, isSuccess \in BOOLEAN :
       UpdateReliabilityScore(i, u, isSuccess)
  \/ \E i \in LedgerCalls : ReliabilityUpdateUser(i)
  \/ \E i \in LedgerCalls, u \in UserIds : UpsertUser(i, u)
  \/ \E i \in LedgerCalls : UpsertUserWrite(i)

SpecLedger == LedgerInit /\ [][LedgerNext]_vars

\* calculateLevel's argument: a balance, or a negative number.
LevelInputs == (0 - 1) .. MaxPoints

LevelInit ==
  /\ now = 1
  /\ spots = <<>>
  /\ parkHistory = {}
  /\ users = [u \in Registered |-> NewUser(u \in Premium)]
  /\ creates = [k \in Creates |-> [pc |-> "idle", data |-> NoData, result |-> "pending"]]
  /\ calls = [c \in Calls |-> NoCall]
  /\ verifying = {}
  /\ lastCall = NoLastCall
  /\ listener = NoListener
  /\ ledger = <<>>
  /\ level \in {[pc |-> "points", points |-> p, level |-> 0, next |-> 0] : p \in LevelInputs}
  /\ found = <<>>
  /\ bookings = <<>>
  /\ bookingCalls = <<>>

LevelNext ==
  \/ LevelOfPoints
  \/ NextLevelPoints

SpecLevel == LevelInit /\ [][LevelNext]_vars

\* verifyParkingSpot calls while spots are created, run out of time and are
\* marked occupied or expired by markSpotAsOccupied and expireParkingSpot.
VerifyNext ==
  \/ Tick
  \/ \E k \in Creates, d \in SpotInputs : CreateParkingSpotBegin(k, d, "ok")
  \/ \E k \in Creates : CreateParkingSpotWrite(k)
  \/ \E s \in SpotIds, st \in {"occupied", "expired"} :
       UpdateParkingSpotStatus(s, st) /\ UNCHANGED lastCall
  \/ \E s \in SpotIds : VerifyParkingSpotRead(s)
  \/ \E s \in SpotIds : VerifyParkingSpotWrite(s)

SpecVerify == Init /\ [][VerifyNext]_vars

\* getActiveParkingSpots calls while one owner's spots are created, run out of
\* time and are marked occupied or expired.
MaxResultsInputs == {1, 2}

ActiveNext ==
  \/ Tick
  \/ \E k \in OwnerCreates, d \in SpotInputs : CreateParkingSpotBegin(k, d, "ok")
  \/ \E k \in OwnerCreates : CreateParkingSpotWrite(k)
  \/ \E s \in OwnerCreates, st \in {"occupied", "expired"} :
       UpdateParkingSpotStatus(s, st) /\ UNCHANGED lastCall
  \/ \E maxResults \in MaxResultsInputs : GetActiveParkingSpots(maxResults)

SpecActive == SpotsInit /\ [][ActiveNext]_vars

\* The booking service's status calls on bookings as createBooking stores
\* them: 'pending', about to run out of time.
BookingIds == 1..NumBookings
BookingCalls == 1..NumBookingCalls

BookingsInit ==
  /\ now = 1
  /\ spots = <<>>
  /\ parkHistory = {}
  /\ users = [u \in Registered |-> NewUser(u \in Premium)]
  /\ creates = [k \in Creates |-> [pc |-> "idle", data |-> NoData, result |-> "pending"]]
  /\ calls = [c \in Calls |-> NoCall]
  /\ verifying = {}
  /\ lastCall = NoLastCall
  /\ listener = NoListener
  /\ ledger = <<>>
  /\ level = <<>>
  /\ found = <<>>
  /\ bookings = [b \in BookingIds |-> [userId |-> "bob", status |-> "pending", expiresAt |-> now]]
  /\ bookingCalls = [i \in BookingCalls |-> NoBookingCall]

BookingsNext ==
  \/ Tick
  \/ \E i \in BookingCalls, b \in BookingIds : ConfirmBooking(i, b)
  \/ \E i \in BookingCalls, b \in BookingIds : CompleteBooking(i, b)
  \/ \E i \in BookingCalls, b \in BookingIds, u \in Registered : CancelBooking(i, b, u)
  \/ \E i \in BookingCalls, b \in BookingIds : ExpireBooking(i, b)
  \/ \E i \in BookingCalls : BookingUpdateDoc(i)

SpecBookings == BookingsInit /\ [][BookingsNext]_vars

\* ------------------------------------------------------------- properties
\* The errors with which runTransaction itself rejects.
TransactionErrors ==
  {"Spot not found", "Spot is not available", "Spot has expired", "aborted"}

\* The errors of the reward step, after the commit.
AwardErrors == {"User not found", "Failed to award points"}

\* Call c's transaction has committed.
Committed(c) ==
  \/ calls[c].pc \in {"awardConfirmer", "awardAuthor"}
  \/ calls[c].pc = "done" /\ calls[c].result \notin TransactionErrors

AllSettled == \A c \in Calls : calls[c].pc = "done"

\* The step in which call c's transaction commits.
CommitStep(c) == calls[c].pc = "commit" /\ calls'[c].pc = "awardConfirmer"

\* The step in which call c's update function runs on the document it read.
GetStep(c) == calls[c].pc = "get" /\ calls'[c].pc # "get"

\* C1: of N >= 2 concurrent confirmParking calls against one unexpired,
\* unconfirmed spot, exactly one takes the spot (its transaction commits) and
\* the other N-1 are rejected with 'Spot is not available'.
C1_ExactlyOneConfirmWins ==
  AllSettled =>
    /\ Cardinality({c \in Calls : Committed(c)}) = 1
    /\ Cardinality({c \in Calls : calls[c].result = "Spot is not available"}) = NumCalls - 1

\* C2: a confirmation writes the spot's status and its parkHistory document in
\* one step: call c's parkHistory document appears exactly in c's commit step,
\* that step leaves the spot 'verified', and every other step of the call
\* (read, retry, abort, rewards) writes neither the spots nor the ledger.
C2_ConfirmAtomic ==
  [][\A c \in Calls :
       /\ (HistoryOf(c)' # HistoryOf(c)) <=> CommitStep(c)
       /\ CommitStep(c) =>
            /\ calls[c].spotId \in DOMAIN spots'
            /\ spots'[calls[c].spotId].status = "verified"
            /\ \E h \in HistoryOf(c)' : h.spotId = calls[c].spotId
       /\ (calls'[c].pc # calls[c].pc /\ ~CommitStep(c)) =>
            (spots' = spots /\ parkHistory' = parkHistory)]_vars

\* C2 witness: a transaction has committed after a retry, its parkHistory
\* document exists and the spot is 'verified'.
C2_Witness ==
  \E c \in Calls :
    /\ calls[c].pc = "awardConfirmer"
    /\ HistoryOf(c) # {}
    /\ \E d \in Calls \ {c} : Committed(d)
    /\ calls[c].spotId \in DOMAIN spots
    /\ spots[calls[c].spotId].status = "verified"

\* C3: confirmParking on a spot with expiresAt <= now is rejected with 'Spot
\* has expired', whatever the stored status, and writes nothing.
C3_ExpiredAlwaysExpired ==
  [][\A c \in Calls :
       (/\ GetStep(c)
        /\ calls[c].spotId \in DOMAIN spots
        /\ spots[calls[c].spotId].expiresAt <= now)
       => (calls'[c].pc = "done" /\ calls'[c].result = "Spot has expired")]_vars

\* C4: confirmParking by another user on an unexpired spot whose stored status
\* is walk_in_pending or leaving_soon_active passes the transaction's checks
\* (and so commits 'verified' and one parkHistory document).
C4_CreatedSpotConfirmable ==
  [][\A c \in Calls :
       (/\ GetStep(c)
        /\ calls[c].spotId \in DOMAIN spots
        /\ spots[calls[c].spotId].status \in {"walk_in_pending", "leaving_soon_active"}
        /\ spots[calls[c].spotId].expiresAt > now
        /\ spots[calls[c].spotId].userId # calls[c].confirmer)
       => calls'[c].pc = "commit"]_vars

\* C5: confirmParking on a missing spot is rejected with 'Spot not found', on
\* an unexpired occupied or expired-status spot with 'Spot is not available';
\* and while no call has returned ok, the ledger is empty and every balance is
\* the initial one (a call that does not return ok writes nothing).
C5_RejectedConfirmWritesNothing ==
  /\ [][\A c \in Calls :
          /\ (GetStep(c) /\ calls[c].spotId \notin DOMAIN spots)
               => calls'[c].result = "Spot not found"
          /\ (/\ GetStep(c)
              /\ calls[c].spotId \in DOMAIN spots
              /\ spots[calls[c].spotId].expiresAt > now
              /\ spots[calls[c].spotId].status \in ExpiredStatuses \cup {"occupied"})
               => calls'[c].result = "Spot is not available"]_vars
  /\ []((\A c \in Calls : calls[c].pc \in {"idle", "done"} /\ calls[c].result # "ok")
         => (/\ \A h \in parkHistory : h.id \notin Calls
             /\ \A u \in DOMAIN users : users[u].parkPoints = DefaultPoints))

\* C6: the ledger is append-only: no step removes or changes a parkHistory
\* document.
C6_HistoryAppendOnly == [][parkHistory \subseteq parkHistory']_vars

\* C6 witness: two confirmations are in the ledger and the spot they confirmed
\* has since been deleted.
C6_Witness ==
  /\ Cardinality(parkHistory) >= 2
  /\ \A h \in parkHistory : h.spotId \notin DOMAIN spots

\* C7: no parkHistory document has the spot's owner as its confirmer.
C7_ConfirmerIsNotOwner == \A h \in parkHistory : h.userId # h.authorUserId

\* The balance the claim promises a user after one confirmation.
PromisedPoints(u, base) ==
  DefaultPoints + (IF users[u].isPremium THEN base * DefaultMultiplier ELSE base)

\* Call c is the only call made, it has committed and run to its end, and no
\* award of its reward step failed.
OnlyCallRewarded(c) ==
  /\ calls[c].pc = "done"
  /\ HistoryOf(c) # {}
  /\ calls[c].result \notin AwardErrors
  /\ \A d \in Calls \ {c} : calls[d].pc = "idle"

\* C8: after a confirmation by a non-owner whose reward step ran without a
\* failed award, the confirmer has 5 more points and the owner 10 more, each
\* doubled for a premium account.
C8_RewardAmounts ==
  \A c \in Calls : \A h \in HistoryOf(c) :
    (OnlyCallRewarded(c) /\ h.userId # h.authorUserId) =>
      /\ h.userId \in DOMAIN users =>
           users[h.userId].parkPoints = PromisedPoints(h.userId, ParkingConfirmationBase)
      /\ h.authorUserId \in DOMAIN users =>
           users[h.authorUserId].parkPoints = PromisedPoints(h.authorUserId, VerifiedPinBase)

\* updateReliabilityScore's new score on success (pointsService.ts).
ReliabilityAfterSuccess(score) == IF score + 2 < 100 THEN score + 2 ELSE 100

\* C9: after a confirmation whose reward step ran without a failed award, the
\* owner's reliability score is min(previous + 2, 100).
C9_OwnerReliabilityRaised ==
  \A c \in Calls : \A h \in HistoryOf(c) :
    (OnlyCallRewarded(c) /\ h.authorUserId \in DOMAIN users) =>
      users[h.authorUserId].reliabilityScore = ReliabilityAfterSuccess(DefaultReliability)

\* The step in which call c's reward step ends in a rejection.
RewardFailStep(c) ==
  calls[c].pc \in {"awardConfirmer", "awardAuthor"} /\ calls'[c].pc = "done"

EffectivelyActiveLeavingSoon(userId) ==
  {s \in DOMAIN spots :
     /\ spots[s].userId = userId
     /\ spots[s].pinType = "leaving-soon"
     /\ spots[s].status = "leaving_soon_active"
     /\ spots[s].expiresAt > now}

\* C11: at any time each owner has at most one effectively active
\* leaving-soon spot, under any interleaving of creates, edits and deletes.
C11_AtMostOneActiveLeavingSoon ==
  \A u \in UserIds : Cardinality(EffectivelyActiveLeavingSoon(u)) <= 1

\* createParkingSpot call k passes its checks in this step and goes on to addDoc.
CreateAcceptedStep(k) == creates[k].pc = "idle" /\ creates'[k].pc = "addDoc"

\* No other createParkingSpot call is between its checks and its write.
NoOtherCreateInFlight(k) == \A j \in DOMAIN creates \ {k} : creates[j].pc # "addDoc"

\* C12: while the owner has an effectively active leaving-soon spot and no
\* other create of theirs is in flight, no createParkingSpot call for another
\* leaving-soon spot gets past the pre-check, whatever the query returns.
C12_SecondLeavingSoonRejected ==
  [][\A k \in DOMAIN creates :
       (/\ CreateAcceptedStep(k)
        /\ creates'[k].data.pinType = "leaving-soon"
        /\ NoOtherCreateInFlight(k))
       => EffectivelyActiveLeavingSoon(creates'[k].data.userId) = {}]_vars

\* createParkingSpot call k throws from one of its checks in this step.
CreateRejectedStep(k) == creates[k].pc = "idle" /\ creates'[k].pc = "done"

\* An updateParkingSpot or deleteParkingSpot call throws in this step.
EditRejectedStep ==
  /\ lastCall' # lastCall
  /\ lastCall'.op \in {"updateParkingSpot", "deleteParkingSpot"}
  /\ lastCall'.result # "ok"

\* C13: a create, update or delete call that ends with a validation,
\* permission or not-found error leaves the stored spots exactly as they were.
C13_RejectedCallWritesNothing ==
  [][((\E k \in DOMAIN creates : CreateRejectedStep(k)) \/ EditRejectedStep)
       => spots' = spots]_vars

\* C13 witness: a stored spot has survived a create rejected by validation
\* and a non-owner's update rejected with the permission error.
C13_Witness ==
  /\ lastCall.op = "updateParkingSpot"
  /\ lastCall.result = "You do not have permission to edit this parking spot"
  /\ lastCall.spotId \in DOMAIN spots
  /\ \E k \in DOMAIN creates :
       creates[k].result = "willLeaveIn must be between 2 and 60 minutes for leaving-soon pins"

\* The lease in minutes the data model gives a spot: willLeaveIn for a
\* leaving-soon pin, 10 for a walk-in pin.
LeaseMinutes(spot) == IF spot.pinType = "leaving-soon" THEN spot.willLeaveIn ELSE 10

\* C14: every spot createParkingSpot stores has expiresAt = createdAt +
\* lease * 60000, the lease being willLeaveIn for a leaving-soon pin and 10
\* for a walk-in pin whatever lease or expiry was passed in.
C14_CreatedExpiryIsLease ==
  [][\A k \in DOMAIN spots' \ DOMAIN spots :
       spots'[k].expiresAt = spots'[k].createdAt + LeaseMinutes(spots'[k]) * MsPerMinute]_vars

\* C15: every stored spot has expiresAt > createdAt, after any sequence of
\* creates and updates.
C15_ExpiresAfterCreated ==
  \A s \in DOMAIN spots : spots[s].expiresAt > spots[s].createdAt

\* C16: every stored leaving-soon spot has willLeaveIn in [2, 60] and every
\* stored walk-in spot has willLeaveIn = 10, after any sequence of creates and updates.
C16_StoredLeaseInRange ==
  \A s \in DOMAIN spots :
    IF spots[s].pinType = "leaving-soon"
      THEN spots[s].willLeaveIn >= MinLeave /\ spots[s].willLeaveIn <= MaxLeave
      ELSE spots[s].willLeaveIn = 10

PermissionErrors ==
  {"You do not have permission to edit this parking spot",
   "You do not have permission to delete this parking spot"}

\* An updateParkingSpot or deleteParkingSpot call on a stored spot, made by
\* someone other than its owner, returns in this step.
NonOwnerEditStep ==
  /\ lastCall' # lastCall
  /\ lastCall'.op \in {"updateParkingSpot", "deleteParkingSpot"}
  /\ lastCall'.spotId \in DOMAIN spots
  /\ lastCall'.userId # spots[lastCall'.spotId].userId

\* C17: updateParkingSpot and deleteParkingSpot called by anyone but the
\* spot's owner throw the permission error, and the spot stays stored with
\* all its fields unchanged.
C17_OnlyOwnerEdits ==
  [][NonOwnerEditStep => (lastCall'.result \in PermissionErrors /\ spots' = spots)]_vars

\* C17 witness: bob's deleteParkingSpot on alice's stored spot was refused.
C17_Witness ==
  /\ lastCall.op = "deleteParkingSpot"
  /\ lastCall.userId = "bob"
  /\ lastCall.result = "You do not have permission to delete this parking spot"
  /\ lastCall.spotId \in DOMAIN spots
  /\ spots[lastCall.spotId].userId = "alice"

\* Stored spot s is changed or removed in this step.
SpotMutatedStep(s) == s \notin DOMAIN spots' \/ spots'[s] # spots[s]

\* C18: a stored spot is changed only by a call of its owner or by a
\* confirmParking transaction: no other operation lets a caller who is not
\* the owner change its status or fields.
C18_OnlyOwnerOrConfirmMutates ==
  [][\A s \in DOMAIN spots :
       SpotMutatedStep(s) =>
         \/ lastCall'.spotId = s /\ lastCall'.userId = spots[s].userId
         \/ \E c \in Calls : CommitStep(c) /\ calls[c].spotId = s]_vars

\* C19: expired is terminal: once expiresAt <= now holds for a stored spot,
\* no later update or status operation makes the reads (the owner's query,
\* a new subscription's query, confirmParking's expiry test) treat it as
\* available again.
C19_ExpiredIsTerminal ==
  [][\A s \in DOMAIN spots \cap DOMAIN spots' :
       spots[s].expiresAt <= now =>
         ~(spots'[s].status \notin ExpiredStatuses /\ spots'[s].expiresAt > now')]_vars

\* The live subscription's callback hands a snapshot to onChange in this step.
DeliverStep ==
  /\ listener.active /\ listener'.active
  /\ (listener.fresh /\ ~listener'.fresh) \/ listener'.seen # listener.seen

\* C20: no snapshot a live listenToNearbySpots subscription hands to onChange
\* contains a spot whose expiresAt is <= now at the time of the delivery.
C20_SnapshotExcludesExpired ==
  [][DeliverStep => \A s \in listener'.spots : listener'.seen[s].expiresAt > now']_vars

\* Stored spot s is active: its status is none of the expired ones and its
\* expiresAt lies ahead.
ActiveSpot(s) == spots[s].status \notin ExpiredStatuses /\ spots[s].expiresAt > now

\* C21: every snapshot a subscription delivers contains an active spot if and
\* only if its distance from the centre is <= the radius, the cut being
\* inclusive; no prefilter drops an active spot that is in range.
C21_SnapshotIsRadiusCut ==
  [][DeliverStep =>
       \A s \in DOMAIN spots :
         ActiveSpot(s) =>
           (s \in listener'.spots <=>
              CalculateDistanceM(listener.centerLat, spots[s].latitude) <= listener.radiusM)]_vars

\* C21 witness: a subscription whose radius is exactly the distance of an
\* active spot one degree north has delivered that spot, with a spot at the
\* centre.
C21_Witness ==
  /\ listener.active /\ ~listener.fresh
  /\ listener.radiusM = MetersPerDegree
  /\ \E s \in listener.spots :
       s \in DOMAIN spots /\ ActiveSpot(s) /\ spots[s].latitude = CenterLat + 1
  /\ \E s \in listener.spots : s \in DOMAIN spots /\ spots[s].latitude = CenterLat

\* The award calls on userId that have returned what they granted.
Returned(userId) ==
  {i \in DOMAIN ledger :
     /\ ledger[i].op \in {"awardPoints", "addPointsToUser"}
     /\ ledger[i].userId = userId /\ ledger[i].pc = "done" /\ ledger[i].result = "ok"}

RECURSIVE SumGranted(_)
SumGranted(S) ==
  IF S = {} THEN 0
  ELSE LET i == CHOOSE x \in S : TRUE IN ledger[i].granted + SumGranted(S \ {i})

\* C22: every awardPoints call on an existing user returns
\* isPremium ? basePoints * multiplier : basePoints, and under any
\* interleaving of award calls each user's balance is the initial balance
\* plus the sum of what the calls on that user returned.
C22_AwardsAddUp ==
  /\ \A i \in DOMAIN ledger :
       (ledger[i].op = "awardPoints" /\ ledger[i].pc = "done" /\ ledger[i].result = "ok")
         => ledger[i].granted =
              (IF ledger[i].isPremium THEN ledger[i].basePoints * ledger[i].multiplier
                                      ELSE ledger[i].basePoints)
  /\ \A u \in DOMAIN users : users[u].parkPoints = DefaultPoints + SumGranted(Returned(u))

\* C22 witness: alice was granted 20 by a premium award of 10 and 7 by an
\* addPointsToUser transaction that had to run twice.
C22_Witness ==
  /\ \E i \in DOMAIN ledger :
       /\ i \in Returned("alice") /\ ledger[i].op = "awardPoints"
       /\ ledger[i].isPremium /\ ledger[i].granted = 20
  /\ \E i \in DOMAIN ledger :
       i \in Returned("alice") /\ ledger[i].op = "addPointsToUser" /\ ledger[i].attempt > 1
  /\ users["alice"].parkPoints >= 27

\* C23: a user's balance is a non-negative integer that only increases: over
\* any interleaving of the writers of the users collection no step lowers a
\* stored balance.
C23_BalanceNeverDecreases ==
  [][\A u \in DOMAIN users :
       /\ users'[u].parkPoints >= users[u].parkPoints
       /\ users'[u].parkPoints >= 0]_vars

\* The updateReliabilityScore calls on userId that have resolved.
Adjusted(userId, isSuccess) ==
  {i \in DOMAIN ledger :
     /\ ledger[i].op = "updateReliabilityScore" /\ ledger[i].userId = userId
     /\ ledger[i].isSuccess = isSuccess /\ ledger[i].pc = "done" /\ ledger[i].result = "ok"}

\* C24: the stored reliability score stays within [0, 100], and while only
\* updateReliabilityScore calls write a user (none of them clamping) the score
\* is the initial score plus 2 per resolved success minus 1 per resolved
\* failure, under every interleaving of the calls.
C24_ReliabilityAddsUp ==
  \A u \in DOMAIN users :
    /\ users[u].reliabilityScore >= 0 /\ users[u].reliabilityScore <= 100
    /\ (\A i \in DOMAIN ledger : ledger[i].op # "upsertUser")
         => users[u].reliabilityScore =
              DefaultReliability + 2 * Cardinality(Adjusted(u, TRUE))
                                 - Cardinality(Adjusted(u, FALSE))

\* Level L spans the balances from (L-1)^2 * 100 up to, not including, L^2 * 100.
InLevelBand(points, L) ==
  (L - 1) * (L - 1) * LevelDivisor <= points /\ points < L * L * LevelDivisor

\* C25: for every non-negative balance, Level(0) = 1, Level(99) = 1,
\* Level(100) = 2, Level(400) = 3, the level is non-decreasing in the balance,
\* and the level is L exactly when (L-1)^2 * 100 <= points < L^2 * 100; the
\* points for the next level are the upper end of that band.
C25_LevelBands ==
  (level.pc \in {"level", "next"} /\ level.points >= 0) =>
    /\ \A L \in 1 .. (level.points + 1) : InLevelBand(level.points, L) <=> L = level.level
    /\ level.points \in {0, 99} => level.level = 1
    /\ level.points = 100 => level.level = 2
    /\ level.points = 400 => level.level = 3
    /\ \A q \in 0 .. level.points : CalculateLevel(q) <= level.level
    /\ level.pc = "next" => level.next = level.level * level.level * LevelDivisor

C25_Witness ==
  level.pc = "next" /\ level.points = 400 /\ level.level = 3 /\ level.next = 900

\* The step in which verifyParkingSpot(s) reaches its updateDoc.
VerifyWriteStep(s) ==
  s \in verifying /\ s \notin verifying' /\ s \in DOMAIN spots /\ spots'[s].status = "verified"

\* C26: verifyParkingSpot never verifies an expired or occupied spot: at the
\* moment of its write the spot is not occupied, has none of the expired
\* statuses and has expiresAt ahead of the clock, under every interleaving with
\* markSpotAsOccupied and expireParkingSpot.
C26_VerifyRejectsExpiredOrOccupied ==
  [][\A s \in SpotIds :
       VerifyWriteStep(s) =>
         /\ spots[s].status \notin ({"occupied"} \cup ExpiredStatuses)
         /\ spots[s].expiresAt > now]_vars

\* C27: getActiveParkingSpots returns at most maxResults spots, and no
\* returned spot has expiresAt <= now at query time, an expired status or the
\* status occupied.
C27_ActiveSpotsOnly ==
  found # <<>> =>
    /\ Len(found.spots) <= found.maxResults
    /\ \A i \in DOMAIN found.spots :
         /\ found.spots[i].expiresAt > found.at
         /\ found.spots[i].status \notin ExpiredStatuses
         /\ found.spots[i].status # "occupied"

\* The parkHistory documents written by confirmParking calls.
ConfirmRecords == {h \in parkHistory : h.id \in Calls}

\* C28: a spot is claimed at most once: the ledger holds at most one
\* confirmation record per spotId, also after confirmParking is called again on
\* a spot whose stored status is already 'verified'.
C28_OneRecordPerSpot ==
  \A h1, h2 \in ConfirmRecords : h1.spotId = h2.spotId => h1 = h2

\* C29: confirmParking reports its outcome faithfully: a call whose transaction
\* committed resolves, and a call that rejects has changed neither the spot's
\* status nor the ledger.
C29_RejectionMeansNoChange ==
  \A c \in Calls :
    (calls[c].pc = "done" /\ calls[c].result # "ok") => HistoryOf(c) = {}

\* C30: the booking statuses completed, cancelled and expired are final: no
\* step changes a booking that holds one of them; a booking becomes confirmed
\* only from pending and completed only from confirmed.
C30_FinalBookingStatuses ==
  [][\A b \in DOMAIN bookings :
       bookings'[b].status # bookings[b].status =>
         /\ bookings[b].status \notin FinalBookingStatuses
         /\ bookings'[b].status = "confirmed" => bookings[b].status = "pending"
         /\ bookings'[b].status = "completed" => bookings[b].status = "confirmed"]_vars

====
